---- MODULE Spec2Model ----
(***************************************************************************)
(* KinoScheduleMaker: the day's schedule as a boolean constraint model     *)
(* (one variable per employee, slot and appointment), its hard and soft    *)
(* constraints, and main()'s ladder of solve attempts followed by the      *)
(* idealistic re-solve.  Spec is main(), SpecSearch the solver's search     *)
(* over the built model, SpecClasses the Store and Shift classes alone,     *)
(* SpecCrowd the crowding caps on a filling break room.                     *)
(*                                                                          *)
(* A text (a time 'H:MM', a shift config 'E' or '10:00-5:00') is a sequence *)
(* of one-character strings.  A Python range(a, b) is the record            *)
(* [start |-> a, stop |-> b].  An assignment s of the sched variables gives *)
(* s[eid][slot], the set of the appointments whose variable has the value 1.*)
(***************************************************************************)
EXTENDS Integers, Sequences, FiniteSets, TLC

VARIABLES
  day_of_week,   \* Config.__init__: the day whose user_config entries are loaded
  pc,            \* where main() is, or the exception that ended it
  rung,          \* index of the ladder entry being tried (1-based)
  pins,          \* the per_run_constraints still in the model, as <<name, value>>
  fixed,         \* the pins make_schedule_idealistic added, as <<name, value>>
  max_time,      \* solver.parameters.max_time_in_seconds
  status,        \* status of the last solver.Solve
  sched,         \* the assignment of the sched variables held by the solver
  enable,        \* the assignment of the enable toggles held by the solver
  feasible_enable, \* the toggles of the solution that triggered refinement
  refinements,   \* how many times make_schedule_idealistic has run
  attempts,      \* the solves made so far, each with its pins, budget and status
  edits,         \* the variables the search has inverted since its starting plan
  verdict,       \* whether the built model admits <<sched, enable>>
  trip,          \* a slot or a time and the conversions applied to it in turn
  made           \* a Shift object: its arguments, its fields, its answers

vars == <<day_of_week, pc, rung, pins, fixed, max_time, status, sched, enable,
          feasible_enable, refinements, attempts, edits, verdict, trip, made>>

-----------------------------------------------------------------------------
(* Store                                                                   *)

TIME_OPEN == 10
TIME_CLOSE == 20
HOURS_OPEN == TIME_CLOSE - TIME_OPEN
MINUTES_PER_SLOT == 15
SLOTS_PER_HOUR == 60 \div MINUTES_PER_SLOT
NUM_SLOTS == HOURS_OPEN * SLOTS_PER_HOUR

Slots == 0 .. (NUM_SLOTS - 1)

\* range(a, b) and membership in it
Range(a, b) == [start |-> a, stop |-> b]
InRange(x, r) == r.start <= x /\ x < r.stop
RangeSet(r) == {x \in r.start .. (r.stop - 1) : TRUE}
\* range(a, b, step)
StepRangeSet(a, b, step) == {x \in a .. (b - 1) : (x - a) % step = 0}

DigitVal(c) ==
  CASE c = "0" -> 0 [] c = "1" -> 1 [] c = "2" -> 2 [] c = "3" -> 3 [] c = "4" -> 4
    [] c = "5" -> 5 [] c = "6" -> 6 [] c = "7" -> 7 [] c = "8" -> 8 [] c = "9" -> 9

DigitChar(d) ==
  CASE d = 0 -> "0" [] d = 1 -> "1" [] d = 2 -> "2" [] d = 3 -> "3" [] d = 4 -> "4"
    [] d = 5 -> "5" [] d = 6 -> "6" [] d = 7 -> "7" [] d = 8 -> "8" [] d = 9 -> "9"

\* int(text) of a text of decimal digits
RECURSIVE ParseInt(_)
ParseInt(t) ==
  IF Len(t) = 0 THEN 0
  ELSE 10 * ParseInt(SubSeq(t, 1, Len(t) - 1)) + DigitVal(t[Len(t)])

\* str(n) of a natural number
RECURSIVE FormatInt(_)
FormatInt(n) ==
  IF n < 10 THEN <<DigitChar(n)>>
  ELSE FormatInt(n \div 10) \o <<DigitChar(n % 10)>>

\* f'{n:02}'
FormatInt02(n) == IF n < 10 THEN <<"0">> \o FormatInt(n) ELSE FormatInt(n)

\* t.index(c): the first position of c in t (1-based here)
IndexOf(t, c) == CHOOSE i \in 1 .. Len(t) : t[i] = c /\ \A j \in 1 .. (i - 1) : t[j] # c

\* time_to_slot that takes the hour 10 for an evening hour too
time_to_slot_TenIsEvening(t) ==
  LET split == IndexOf(t, ":")
      hour0 == ParseInt(SubSeq(t, 1, split - 1))
      hour == IF hour0 <= 10 THEN hour0 + 12 ELSE hour0
      minute == ParseInt(SubSeq(t, split + 1, Len(t)))
  IN ((hour - TIME_OPEN) * SLOTS_PER_HOUR) + (minute \div MINUTES_PER_SLOT)

time_to_slot(t) ==
  LET split == IndexOf(t, ":")
      hour0 == ParseInt(SubSeq(t, 1, split - 1))
      hour == IF hour0 < 10 THEN hour0 + 12 ELSE hour0
      minute == ParseInt(SubSeq(t, split + 1, Len(t)))
  IN ((hour - TIME_OPEN) * SLOTS_PER_HOUR) + (minute \div MINUTES_PER_SLOT)

slot_to_time(slot) ==
  LET hour0 == TIME_OPEN + (slot \div SLOTS_PER_HOUR)
      hour == IF hour0 > 12 THEN hour0 - 12 ELSE hour0
      seconds == (slot % SLOTS_PER_HOUR) * MINUTES_PER_SLOT
  IN FormatInt(hour) \o <<":">> \o FormatInt02(seconds)

\* the times the source writes as literals
T1000 == <<"1", "0", ":", "0", "0">>
T1100 == <<"1", "1", ":", "0", "0">>
T1115 == <<"1", "1", ":", "1", "5">>
T1200 == <<"1", "2", ":", "0", "0">>
T100 == <<"1", ":", "0", "0">>
T200 == <<"2", ":", "0", "0">>
T300 == <<"3", ":", "0", "0">>
T400 == <<"4", ":", "0", "0">>
T500 == <<"5", ":", "0", "0">>
T530 == <<"5", ":", "3", "0">>
T545 == <<"5", ":", "4", "5">>
T600 == <<"6", ":", "0", "0">>
T630 == <<"6", ":", "3", "0">>
T700 == <<"7", ":", "0", "0">>
T800 == <<"8", ":", "0", "0">>

-----------------------------------------------------------------------------
(* Shift                                                                   *)

ConfigE == <<"E">>
ConfigM == <<"M">>
ConfigL == <<"L">>
IsTemplate(config) == config \in {ConfigE, ConfigM, ConfigL}

\* the table of Shift.__init__; ('M', True) is not a key of it
ShiftTableHas(config, is_fulltime) == ~(config = ConfigM /\ is_fulltime)
ShiftTable(config, is_fulltime) ==
  CASE config = ConfigE /\ is_fulltime -> <<T1000, T630>>
    [] config = ConfigE /\ ~is_fulltime -> <<T1000, T545>>
    [] config = ConfigM /\ ~is_fulltime -> <<T1100, T700>>
    [] config = ConfigL /\ is_fulltime -> <<T1115, T800>>
    [] config = ConfigL /\ ~is_fulltime -> <<T1200, T800>>

\* Shift(config, is_fulltime): the object's three fields
Shift(config, is_fulltime) ==
  LET times == IF IsTemplate(config)
               THEN ShiftTable(config, is_fulltime)
               ELSE LET dash == IndexOf(config, "-")
                    IN <<SubSeq(config, 1, dash - 1), SubSeq(config, dash + 1, Len(config))>>
  IN [config |-> config, is_fulltime |-> is_fulltime,
      time_range |-> Range(time_to_slot(times[1]), time_to_slot(times[2]))]

lunch_slots == StepRangeSet(time_to_slot(T1200), time_to_slot(T400), 4)

similar(shift) ==
  IF shift.time_range.start < time_to_slot(T1100) THEN Shift(ConfigE, shift.is_fulltime)
  ELSE IF shift.time_range.stop < time_to_slot(T1200) THEN Shift(ConfigM, shift.is_fulltime)
  ELSE Shift(ConfigL, shift.is_fulltime)

\* the shift whose config the template-keyed queries read
Templated(shift) == IF IsTemplate(shift.config) THEN shift ELSE similar(shift)

lunch_priority(shift) ==
  LET s == Templated(shift)
  IN CASE s.config = ConfigE -> 2
       [] s.config = ConfigM /\ ~s.is_fulltime -> 1
       [] s.config = ConfigL -> 0

lunch_slots_strict(shift) ==
  LET s == Templated(shift)
      times == CASE s.config = ConfigE -> <<T1200, T200>>
                 [] s.config = ConfigM /\ ~s.is_fulltime -> <<T100, T300>>
                 [] s.config = ConfigL -> <<T200, T400>>
  IN StepRangeSet(time_to_slot(times[1]), time_to_slot(times[2]), 4)

break_lunch_order(shift, lunch_time) ==
  LET s == Templated(shift)
  IN IF lunch_time = T100 /\ s.config = ConfigE THEN "1L2"
     ELSE IF lunch_time = T200 /\ ~(s.config = ConfigL /\ ~s.is_fulltime) THEN "1L2"
     ELSE IF lunch_time = T300
          THEN (IF s.config = ConfigE /\ ~s.is_fulltime THEN "12L" ELSE "1L2")
     ELSE "L12"

\* no Shift object yet
NotMade == [stage |-> "none"]

-----------------------------------------------------------------------------
(* Appointment                                                             *)

NOT_HERE == 0
REGULAR == 1
LUNCH == 2
BREAK == 3
CASHIER == 4
SUPPORT == 5
MEETING == 6
COUNT == 7

Appointments == 0 .. (COUNT - 1)

-----------------------------------------------------------------------------
(* config.py: the day's roster, register counts and meetings.  The days    *)
(* here are small rosters in the format of config.py.                       *)

Days == 0 .. 7

\* name -> <<is full-time?, department>>
EMPLOYEE_INFO ==
  [name \in {"A1", "B1", "J1", "M2", "T2"} |->
     CASE name = "A1" -> <<FALSE, "SD">>
       [] name = "B1" -> <<FALSE, "CASHIER">>
       [] name = "J1" -> <<FALSE, "SD">>
       [] name = "M2" -> <<FALSE, "CASHIER">>
       [] name = "T2" -> <<TRUE, "NBC">>]

Config1000to800 == T1000 \o <<"-">> \o T800

\* day -> list of <<shift, name>>
SCHEDULE ==
  [day \in Days |->
     CASE day \in {0, 1} -> << <<Config1000to800, "B1">>, <<ConfigE, "T2">>,
                               <<ConfigE, "A1">>, <<ConfigL, "J1">> >>
       [] day = 2 -> << <<Config1000to800, "T2">> >>
       [] day = 3 -> << <<Config1000to800, "B1">>, <<Config1000to800, "M2">> >>
       [] day = 4 -> << <<Config1000to800, "B1">>, <<ConfigE, "A1">>, <<ConfigL, "J1">> >>
       [] day = 5 -> << <<Config1000to800, "B1">>, <<Config1000to800, "M2">>,
                        <<ConfigE, "T2">>, <<ConfigE, "A1">>, <<ConfigL, "J1">> >>
       [] day = 6 -> << <<Config1000to800, "B1">>, <<ConfigE, "T2">>,
                        <<ConfigL, "T2">>, <<ConfigE, "A1">> >>
       [] day = 7 -> << <<Config1000to800, "B1">>, <<ConfigE, "T2">>,
                        <<ConfigE, "A1">>, <<ConfigL, "J1">> >>]

\* day -> list of <<desired register count, starting at what time>>
REGISTER_COUNT ==
  [day \in Days |->
     CASE day = 1 -> << <<1, T1000>>, <<2, T500>>, <<1, T530>> >>
       [] day = 5 -> << <<2, T1000>>, <<3, T500>>, <<2, T530>> >>
       [] OTHER -> << <<1, T1000>> >>]

\* day -> name -> list of <<start-time, end-time>>
MEETINGS ==
  [day \in Days |->
     CASE day \in {1, 6} -> [name \in {"T2"} |-> << <<T1000, T1100>> >>]
       [] day = 7 -> [name \in {"M2"} |-> << <<T1000, T1100>> >>]
       [] OTHER -> [name \in {} |-> << >>]]

-----------------------------------------------------------------------------
(* Config                                                                  *)

\* Config.__init__
Config(day) ==
  [employees |->
     [eid \in 0 .. (Len(SCHEDULE[day]) - 1) |->
        LET shift_config == SCHEDULE[day][eid + 1][1]
            e_name == SCHEDULE[day][eid + 1][2]
        IN [shift |-> Shift(shift_config, EMPLOYEE_INFO[e_name][1]),
            name |-> e_name,
            dept |-> EMPLOYEE_INFO[e_name][2]]],
   meetings |->
     [name \in DOMAIN MEETINGS[day] |->
        [i \in DOMAIN MEETINGS[day][name] |->
           Range(time_to_slot(MEETINGS[day][name][i][1]),
                 time_to_slot(MEETINGS[day][name][i][2]))]],
   register_count |->
     [i \in DOMAIN REGISTER_COUNT[day] |->
        [count |-> REGISTER_COUNT[day][i][1],
         start |-> time_to_slot(REGISTER_COUNT[day][i][2])]]]

\* the Config object of each day, built once
ConfigOf == [day \in Days |-> Config(day)]

\* Config.employee_ids; the ids as a set
employee_ids(config, filt_type, opposite) ==
  IF filt_type = "ALL" THEN DOMAIN config.employees
  ELSE IF filt_type = "FULLTIME"
       THEN {eid \in DOMAIN config.employees :
               opposite # config.employees[eid].shift.is_fulltime}
  ELSE {eid \in DOMAIN config.employees :
          opposite # (config.employees[eid].dept = filt_type)}

\* Config.employee_name_to_id: the ids bearing the name
ids_named(config, name) ==
  {eid \in DOMAIN config.employees : config.employees[eid].name = name}

\* "AssertionError" for no employee of the name, "SystemExit" for several
employee_name_to_id(config, name) ==
  LET ret == ids_named(config, name)
  IN IF Cardinality(ret) = 0 THEN "AssertionError"
     ELSE IF Cardinality(ret) = 1 THEN CHOOSE eid \in ret : TRUE
     ELSE "SystemExit"

number_of_designated_cashiers_here(config, slot) ==
  Cardinality({eid \in employee_ids(config, "CASHIER", FALSE) :
                 InRange(slot, config.employees[eid].shift.time_range)})

-----------------------------------------------------------------------------
(* Run: the sched variables and the hard constraints                       *)

\* the keys of Run.sched
SchedVars(config) == (DOMAIN config.employees) \X Slots \X Appointments

\* the value (0 or 1) of sched[(eid, slot, appt)] in the assignment s
Val(s, eid, slot, appt) == IF appt \in s[eid][slot] THEN 1 ELSE 0

\* sum(sched[(eid, slot, appt)] for eid in eids for appt in appts) at one slot
SumAt(s, eids, slot, appts) ==
  Cardinality({x \in eids \X appts : x[2] \in s[x[1]][slot]})

\* sum(sched[(eid, slot, appt)] for slot in slots for appt in appts) of one employee
SumOf(s, eid, slots, appts) ==
  Cardinality({x \in slots \X appts : x[2] \in s[eid][x[1]]})

ShiftRange(config, eid) == config.employees[eid].shift.time_range

\* HardShiftTimes with an implication in place of the equality
HardShiftTimes_OnlyOutside(config, s) ==
  \A eid \in DOMAIN config.employees : \A slot \in Slots :
    LET here == InRange(slot, config.employees[eid].shift.time_range)
    IN (~here) => (NOT_HERE \in s[eid][slot])

\* Hard Constraint: Shift start/end times, based on employee+shift.
HardShiftTimes(config, s) ==
  \A eid \in employee_ids(config, "ALL", FALSE) : \A slot \in Slots :
    LET here == InRange(slot, ShiftRange(config, eid))
    IN (NOT_HERE \in s[eid][slot]) = (~here)

\* HardExactlyOne with AddAtLeastOne in place of AddExactlyOne
HardExactlyOne_AtLeastOne(config, s) ==
  \A eid \in DOMAIN config.employees : \A slot \in Slots :
    Cardinality(s[eid][slot]) >= 1

\* Hard Constraint: Each employee has exactly one appointment per slot.
HardExactlyOne(config, s) ==
  \A eid \in employee_ids(config, "ALL", FALSE) : \A slot \in Slots :
    Cardinality(s[eid][slot]) = 1

\* Hard Constraint: Designated cashier is never regular/support/meeting.
HardDesignatedCashier(config, s) ==
  \A eid \in employee_ids(config, "CASHIER", FALSE) : \A slot \in Slots :
    /\ SUPPORT \notin s[eid][slot]
    /\ REGULAR \notin s[eid][slot]
    /\ MEETING \notin s[eid][slot]

\* Hard Constraint: At least one cashier at all times.
HardAtLeastOneCashier(config, s) ==
  \A slot \in Slots :
    \E eid \in employee_ids(config, "ALL", FALSE) : CASHIER \in s[eid][slot]

NoneValue == "None"

\* CurrCountFrom without the break: the loop runs through every epoch
CurrCountFrom_NoBreak(register_count, slot, i, curr_count) ==
  register_count[Len(register_count)].count

\* the loop over config.register_count, from epoch i on, with curr_count so far
RECURSIVE CurrCountFrom(_, _, _, _)
CurrCountFrom(register_count, slot, i, curr_count) ==
  IF i > Len(register_count) THEN curr_count
  ELSE IF slot < register_count[i].start THEN curr_count
  ELSE CurrCountFrom(register_count, slot, i + 1, register_count[i].count)

curr_count_at(config, slot) == CurrCountFrom(config.register_count, slot, 1, NoneValue)

\* RegisterCountErrors with the comparison turned round
RegisterCountErrors_Reversed(config) ==
  {slot \in Slots :
     curr_count_at(config, slot) > number_of_designated_cashiers_here(config, slot)}

\* RegisterCountErrors that also raises where the two numbers are equal
RegisterCountErrors_AtMost(config) ==
  {slot \in Slots :
     curr_count_at(config, slot) <= number_of_designated_cashiers_here(config, slot)}

\* RegisterCountErrors that raises wherever the two numbers differ
RegisterCountErrors_Unequal(config) ==
  {slot \in Slots :
     curr_count_at(config, slot) # number_of_designated_cashiers_here(config, slot)}

\* the slots at which add_hard_constraints raises SystemExit
RegisterCountErrors(config) ==
  {slot \in Slots :
     curr_count_at(config, slot) < number_of_designated_cashiers_here(config, slot)}

\* Hard Constraint: Obey self.config.register_count.
HardRegisterCount(config, s) ==
  \A slot \in Slots :
    SumAt(s, employee_ids(config, "ALL", FALSE), slot, {CASHIER, SUPPORT})
      = curr_count_at(config, slot)

\* ortools_or with the encoding of ortools_and
ortools_or_AsAnd(values) == \A i \in DOMAIN values : values[i]

\* ortools_or(result, vars): the value result must take
ortools_or(values) == \E i \in DOMAIN values : values[i]

\* ortools_and(result, vars): the value result must take
ortools_and(values) == \A i \in DOMAIN values : values[i]

\* Hard Constraint: Non-cashier shouldn't be made cashier at same time as another cashier.
HardNonCashierCashier(config, s) ==
  \A slot \in Slots :
    LET non_cashier_cashiers ==
          ortools_or([eid \in employee_ids(config, "CASHIER", TRUE) |->
                        CASHIER \in s[eid][slot]])
    IN non_cashier_cashiers =>
         SumAt(s, employee_ids(config, "ALL", FALSE), slot, {CASHIER}) = 1

\* Hard Constraint: Two breaks per employee.
HardTwoBreaks(config, s) ==
  \A eid \in employee_ids(config, "ALL", FALSE) : SumOf(s, eid, Slots, {BREAK}) = 2

\* Hard Constraint: One lunch-hour per employee.
HardOneLunchHour(config, s) ==
  \A eid \in employee_ids(config, "ALL", FALSE) :
    SumOf(s, eid, Slots, {LUNCH}) = SLOTS_PER_HOUR

\* HardLunchOnTheHour without the to_the_right implication
HardLunchOnTheHour_StartOnly(config, s) ==
  \A eid \in DOMAIN config.employees :
    Cardinality({slot \in lunch_slots : LUNCH \in s[eid][slot]}) = 1

\* Hard Constraint: Employee gets one lunch, on the hour, from lunch_slots().
HardLunchOnTheHour(config, s) ==
  \A eid \in employee_ids(config, "ALL", FALSE) :
    /\ SumOf(s, eid, lunch_slots, {LUNCH}) = 1
    /\ \A slot \in lunch_slots :
         LET to_the_right ==
               ortools_and([ss \in (slot + 1) .. (slot + SLOTS_PER_HOUR - 1) |->
                              LUNCH \in s[eid][ss]])
         IN (LUNCH \in s[eid][slot]) => to_the_right

\* Hard Constraint: Employee never starts off with lunch.
HardNeverStartsWithLunch(config, s) ==
  \A eid \in employee_ids(config, "ALL", FALSE) :
    LUNCH \notin s[eid][ShiftRange(config, eid).start]

\* HardMeetings without the loop over the employees that have no entry
HardMeetings_NamedOnly(config, s) ==
  \A e_name \in DOMAIN config.meetings :
    LET meetings == config.meetings[e_name]
        eid == employee_name_to_id(config, e_name)
    IN \A slot \in Slots :
         LET in_meeting == \E i \in DOMAIN meetings : InRange(slot, meetings[i])
         IN (MEETING \in s[eid][slot]) = in_meeting

\* Hard Constraint: Obey self.config.meetings.
HardMeetings(config, s) ==
  /\ \A e_name \in DOMAIN config.meetings :
       LET meetings == config.meetings[e_name]
           eid == employee_name_to_id(config, e_name)
       IN \A slot \in Slots :
            LET in_meeting == \E i \in DOMAIN meetings : InRange(slot, meetings[i])
            IN (MEETING \in s[eid][slot]) = in_meeting
  /\ \A eid \in employee_ids(config, "ALL", FALSE) :
       config.employees[eid].name \notin DOMAIN config.meetings =>
         \A slot \in Slots : MEETING \notin s[eid][slot]

\* Run.add_hard_constraints: the assignments its constraints admit
add_hard_constraints(config, s) ==
  /\ HardExactlyOne(config, s)
  /\ HardShiftTimes(config, s)
  /\ HardDesignatedCashier(config, s)
  /\ HardAtLeastOneCashier(config, s)
  /\ HardRegisterCount(config, s)
  /\ HardNonCashierCashier(config, s)
  /\ HardTwoBreaks(config, s)
  /\ HardOneLunchHour(config, s)
  /\ HardLunchOnTheHour(config, s)
  /\ HardNeverStartsWithLunch(config, s)
  /\ HardMeetings(config, s)

-----------------------------------------------------------------------------
(* Run.sched_index and the soft constraints' procedures.  Each procedure   *)
(* takes curr_soft_enable, the value of the toggle of the soft constraint  *)
(* being added, and tells whether the constraints it adds admit s.         *)

MaxOf(S) == CHOOSE x \in S : \A y \in S : y <= x

\* the value the constraints of sched_index give the returned variable
sched_index(config, s, eid, appt, last) ==
  LET shift_range == ShiftRange(config, eid)
  IN IF last
     THEN MaxOf({Val(s, eid, slot, appt) * slot : slot \in RangeSet(shift_range)})
     ELSE shift_range.stop
            - MaxOf({Val(s, eid, slot, appt) * (shift_range.stop - slot) :
                       slot \in RangeSet(shift_range)})

\* the domains of the variables sched_index creates
sched_index_domain(config, s, eid, appt, last) ==
  LET shift_range == ShiftRange(config, eid)
      appt_slot == sched_index(config, s, eid, appt, last)
      distance_from_end == shift_range.stop - appt_slot
  IN /\ shift_range.start <= appt_slot /\ appt_slot <= shift_range.stop - 1
     /\ last \/ (1 <= distance_from_end
                 /\ distance_from_end <= shift_range.stop - shift_range.start)

\* ranges_min_to_max(ranges), for a non-empty set of ranges
ranges_min_to_max(ranges) ==
  Range(-MaxOf({-r.start : r \in ranges}), MaxOf({r.stop : r \in ranges}))

available_when_here_if_mult(config, s, curr_soft_enable, employee_ids_, available_appointments, num_exceptions) ==
  IF Cardinality(employee_ids_) = 1 THEN TRUE
  ELSE LET shift_ranges == {ShiftRange(config, eid) : eid \in employee_ids_}
           slots == RangeSet(ranges_min_to_max(shift_ranges))
       IN IF num_exceptions = 0
          THEN \A slot \in slots :
                 curr_soft_enable =>
                   SumAt(s, employee_ids_, slot, available_appointments) >= 1
          ELSE LET exceptions ==
                     {slot \in slots :
                        SumAt(s, employee_ids_, slot, available_appointments) = 0}
               IN curr_soft_enable => Cardinality(exceptions) <= num_exceptions

ban_register_for_nbc_if_alone(config, s, curr_soft_enable) ==
  LET nbc == employee_ids(config, "NBC", FALSE)
  IN Cardinality(nbc) = 1 =>
       \A slot \in Slots : \A eid \in nbc :
         curr_soft_enable =>
           (CASHIER \notin s[eid][slot] /\ SUPPORT \notin s[eid][slot])

ban_register_for_non_cashier_as_first_thing_in_day_if_not_opening(config, s, curr_soft_enable) ==
  \A eid \in employee_ids(config, "ALL", FALSE) :
    LET shift_range == ShiftRange(config, eid)
    IN \/ eid \in employee_ids(config, "CASHIER", FALSE)
       \/ shift_range.start = time_to_slot(T1000)
       \/ \A appt \in {CASHIER, SUPPORT} :
            curr_soft_enable => appt \notin s[eid][shift_range.start]

ban_simultaneous_break_lunch_for_subgroup(config, s, curr_soft_enable, employee_ids_) ==
  \A slot \in Slots :
    curr_soft_enable => SumAt(s, employee_ids_, slot, {LUNCH, BREAK}) <= 1

ignore_fairness(config, eid) ==
  /\ eid \in employee_ids(config, "NBC", FALSE)
  /\ Cardinality(employee_ids(config, "NBC", FALSE)) = 1

cap_non_cashier_appointment_delta(config, s, curr_soft_enable, appointments, max_delta) ==
  \A eid1 \in employee_ids(config, "CASHIER", TRUE) :
    \A eid2 \in employee_ids(config, "CASHIER", TRUE) :
      \/ ignore_fairness(config, eid1)
      \/ eid1 >= eid2
      \/ ignore_fairness(config, eid2)
      \/ LET e1_count == SumOf(s, eid1, Slots, appointments)
             e2_count == SumOf(s, eid2, Slots, appointments)
         IN /\ curr_soft_enable => (e1_count - e2_count) <= max_delta
            /\ curr_soft_enable => (e1_count - e2_count) >= -max_delta

\* the constraints of cap_register_in_span carry no OnlyEnforceIf
cap_register_in_span(config, s, curr_soft_enable, cap, slot_span) ==
  \A eid \in employee_ids(config, "CASHIER", TRUE) :
    LET shift_range == ShiftRange(config, eid)
    IN \A slot_base \in RangeSet(shift_range) :
         LET last == IF shift_range.stop < slot_base + slot_span
                     THEN shift_range.stop ELSE slot_base + slot_span
         IN SumOf(s, eid, slot_base .. (last - 1), {CASHIER, SUPPORT}) <= cap

cap_simultaneous_appointments(config, s, curr_soft_enable, appointments, cap) ==
  \A slot \in Slots :
    curr_soft_enable =>
      SumAt(s, employee_ids(config, "ALL", FALSE), slot, appointments) <= cap

require_aesthetics_and_break_symmetries(config, s, curr_soft_enable) ==
  \A eid1 \in employee_ids(config, "CASHIER", TRUE) :
    \A eid2 \in employee_ids(config, "CASHIER", TRUE) :
      \/ eid1 >= eid2
      \/ eid1 \in employee_ids(config, "NBC", FALSE)
      \/ eid2 \in employee_ids(config, "NBC", FALSE)
      \/ /\ \A slot_range \in {Range(0, time_to_slot(T1200)),
                               Range(time_to_slot(T600), NUM_SLOTS)} :
              \A slot1 \in RangeSet(slot_range) : \A slot2 \in RangeSet(slot_range) :
                LET both_cashier == ortools_and(<< CASHIER \in s[eid1][slot1],
                                                   CASHIER \in s[eid2][slot2] >>)
                IN (both_cashier /\ curr_soft_enable) => slot1 < slot2
         /\ ShiftRange(config, eid1) = ShiftRange(config, eid2) =>
              LET e1_lunch_slot == sched_index(config, s, eid1, LUNCH, FALSE)
                  e2_lunch_slot == sched_index(config, s, eid2, LUNCH, FALSE)
                  same_lunch == (e1_lunch_slot = e2_lunch_slot)
              IN /\ sched_index_domain(config, s, eid1, LUNCH, FALSE)
                 /\ sched_index_domain(config, s, eid2, LUNCH, FALSE)
                 /\ curr_soft_enable => e1_lunch_slot <= e2_lunch_slot
                 /\ \A first_break \in {TRUE, FALSE} :
                      /\ sched_index_domain(config, s, eid1, BREAK, first_break)
                      /\ sched_index_domain(config, s, eid2, BREAK, first_break)
                      /\ (same_lunch /\ curr_soft_enable) =>
                           sched_index(config, s, eid1, BREAK, first_break)
                             <= sched_index(config, s, eid2, BREAK, first_break)

require_break_lunches_gap(config, s, curr_soft_enable, gap) ==
  \A eid \in employee_ids(config, "ALL", FALSE) :
    /\ sched_index_domain(config, s, eid, BREAK, FALSE)
    /\ sched_index_domain(config, s, eid, BREAK, TRUE)
    /\ sched_index_domain(config, s, eid, LUNCH, FALSE)
    /\ LET break1_slot == sched_index(config, s, eid, BREAK, FALSE)
           break2_slot == sched_index(config, s, eid, BREAK, TRUE)
           lunch_slot == sched_index(config, s, eid, LUNCH, FALSE)
       IN \A delta \in {break1_slot - break2_slot, break1_slot - lunch_slot,
                        break2_slot - lunch_slot, break1_slot - (lunch_slot + 3),
                        break2_slot - (lunch_slot + 3)} :
            LET positive == (delta > 0)
            IN /\ (positive /\ curr_soft_enable) => delta > gap
               /\ (~positive /\ curr_soft_enable) => delta < -gap

require_fair_lunch_order(config, s, curr_soft_enable) ==
  \A eid1 \in employee_ids(config, "ALL", FALSE) :
    \A eid2 \in employee_ids(config, "ALL", FALSE) :
      LET e1_shift == config.employees[eid1].shift
          e2_shift == config.employees[eid2].shift
      IN \/ lunch_priority(e1_shift) <= lunch_priority(e2_shift)
         \/ \A slot1 \in lunch_slots : \A slot2 \in lunch_slots :
              LET lunch_lunch == ortools_and(<< LUNCH \in s[eid1][slot1],
                                                LUNCH \in s[eid2][slot2] >>)
              IN (lunch_lunch /\ curr_soft_enable) => slot1 <= slot2

require_lunches_balanced(config, s, curr_soft_enable) ==
  \A pair \in {<<T1200, T100>>, <<T200, T300>>} :
    LET count_a == SumAt(s, employee_ids(config, "ALL", FALSE), time_to_slot(pair[1]), {LUNCH})
        count_b == SumAt(s, employee_ids(config, "ALL", FALSE), time_to_slot(pair[2]), {LUNCH})
    IN /\ curr_soft_enable => (count_a - count_b) <= 1
       /\ curr_soft_enable => (count_a - count_b) >= -1

require_min_gap_break_from_start_end(config, s, curr_soft_enable, start_gap, end_gap) ==
  \A eid \in employee_ids(config, "ALL", FALSE) :
    LET shift_range == ShiftRange(config, eid)
    IN /\ \A slot \in RangeSet(Range(0, shift_range.start + start_gap - 1)) :
            curr_soft_enable => BREAK \notin s[eid][slot]
       /\ \A slot \in RangeSet(Range(shift_range.stop - end_gap, shift_range.stop)) :
            curr_soft_enable => BREAK \notin s[eid][slot]

require_stricter_lunch_bounds(config, s, curr_soft_enable) ==
  \A eid \in employee_ids(config, "ALL", FALSE) :
    curr_soft_enable =>
      SumOf(s, eid, lunch_slots_strict(config.employees[eid].shift), {LUNCH}) = 1

-----------------------------------------------------------------------------
(* Run.add_soft_constraints                                                *)

\* the list built by add_soft_constraints: name and weight of each SoftConstraint
soft_constraints ==
  <<
    [name |-> "aesthetics", weight |-> 1],
    [name |-> "break-3", weight |-> 2],
    [name |-> "break-4", weight |-> 3],
    [name |-> "break-5", weight |-> 4],
    [name |-> "break-bound-gap-44", weight |-> 4],
    [name |-> "break-bound-gap-54", weight |-> 2],
    [name |-> "break-bound-gap-11", weight |-> 999],
    [name |-> "break-lunch-gap-3", weight |-> 10],
    [name |-> "break-lunch-gap-4", weight |-> 4],
    [name |-> "breakroom-4-if-12", weight |-> 2],
    [name |-> "breakroom-5", weight |-> 3],
    [name |-> "breakroom-6", weight |-> 10],
    [name |-> "breakroom-7", weight |-> 999],
    [name |-> "cashier-diff-0", weight |-> 10],
    [name |-> "cashier-diff-1", weight |-> 20],
    [name |-> "cashier-diff-2", weight |-> 30],
    [name |-> "cashier-diff-3", weight |-> 40],
    [name |-> "cashier-diff-4", weight |-> 999],
    [name |-> "diff-break-cashiers", weight |-> 8],
    [name |-> "fulltime-avail", weight |-> 1],
    [name |-> "lunch-4-if-16", weight |-> 2],
    [name |-> "lunch-balance", weight |-> 1],
    [name |-> "lunch-fair-order", weight |-> 2],
    [name |-> "lunch-strict-bounds", weight |-> 20],
    [name |-> "nbc-avail", weight |-> 1],
    [name |-> "nbc-avail-except-1", weight |-> 4],
    [name |-> "nbc-avail-except-2", weight |-> 8],
    [name |-> "nbc-avail-except-3", weight |-> 12],
    [name |-> "nbc-avail-except-4", weight |-> 20],
    [name |-> "nbc-diff-break", weight |-> 4],
    [name |-> "nbc-no-reg-if-alone", weight |-> 4],
    [name |-> "no-reg-first-thing", weight |-> 4],
    [name |-> "register-diff-0", weight |-> 10],
    [name |-> "register-diff-1", weight |-> 20],
    [name |-> "register-diff-2", weight |-> 30],
    [name |-> "register-diff-3", weight |-> 40],
    [name |-> "register-diff-4", weight |-> 999],
    [name |-> "register-max-4-in-16", weight |-> 4],
    [name |-> "register-max-6-in-16", weight |-> 99]
  >>

SoftNames == {soft_constraints[i].name : i \in DOMAIN soft_constraints}

\* c.func() of the SoftConstraint called name, run with curr_soft_enable = c.enable
SoftFunc(name, config, s, curr_soft_enable) ==
  CASE name = "aesthetics" ->
         require_aesthetics_and_break_symmetries(config, s, curr_soft_enable)
    [] name = "break-3" ->
         cap_simultaneous_appointments(config, s, curr_soft_enable, {BREAK}, 3)
    [] name = "break-4" ->
         cap_simultaneous_appointments(config, s, curr_soft_enable, {BREAK}, 4)
    [] name = "break-5" ->
         cap_simultaneous_appointments(config, s, curr_soft_enable, {BREAK}, 5)
    [] name = "break-bound-gap-44" ->
         require_min_gap_break_from_start_end(config, s, curr_soft_enable, 4, 4)
    [] name = "break-bound-gap-54" ->
         require_min_gap_break_from_start_end(config, s, curr_soft_enable, 5, 4)
    [] name = "break-bound-gap-11" ->
         require_min_gap_break_from_start_end(config, s, curr_soft_enable, 1, 1)
    [] name = "break-lunch-gap-3" ->
         require_break_lunches_gap(config, s, curr_soft_enable, 3)
    [] name = "break-lunch-gap-4" ->
         require_break_lunches_gap(config, s, curr_soft_enable, 4)
    [] name = "breakroom-4-if-12" ->
         (Cardinality(employee_ids(config, "ALL",
             FALSE)) <= 12 => cap_simultaneous_appointments(config, s, curr_soft_enable,
             {BREAK, LUNCH}, 4))
    [] name = "breakroom-5" ->
         cap_simultaneous_appointments(config, s, curr_soft_enable, {BREAK, LUNCH}, 5)
    [] name = "breakroom-6" ->
         cap_simultaneous_appointments(config, s, curr_soft_enable, {BREAK, LUNCH}, 6)
    [] name = "breakroom-7" ->
         cap_simultaneous_appointments(config, s, curr_soft_enable, {BREAK, LUNCH}, 6)
    [] name = "cashier-diff-0" ->
         cap_non_cashier_appointment_delta(config, s, curr_soft_enable, {CASHIER}, 0)
    [] name = "cashier-diff-1" ->
         cap_non_cashier_appointment_delta(config, s, curr_soft_enable, {CASHIER}, 1)
    [] name = "cashier-diff-2" ->
         cap_non_cashier_appointment_delta(config, s, curr_soft_enable, {CASHIER}, 2)
    [] name = "cashier-diff-3" ->
         cap_non_cashier_appointment_delta(config, s, curr_soft_enable, {CASHIER}, 3)
    [] name = "cashier-diff-4" ->
         cap_non_cashier_appointment_delta(config, s, curr_soft_enable, {CASHIER}, 4)
    [] name = "diff-break-cashiers" ->
         ban_simultaneous_break_lunch_for_subgroup(config, s, curr_soft_enable,
             employee_ids(config, "CASHIER", FALSE))
    [] name = "fulltime-avail" ->
         available_when_here_if_mult(config, s, curr_soft_enable, employee_ids(config,
             "FULLTIME", FALSE), {REGULAR, CASHIER, SUPPORT}, 0)
    [] name = "lunch-4-if-16" ->
         (Cardinality(employee_ids(config, "ALL",
             FALSE)) <= 16 => cap_simultaneous_appointments(config, s, curr_soft_enable,
             {LUNCH}, 4))
    [] name = "lunch-balance" ->
         require_lunches_balanced(config, s, curr_soft_enable)
    [] name = "lunch-fair-order" ->
         require_fair_lunch_order(config, s, curr_soft_enable)
    [] name = "lunch-strict-bounds" ->
         require_stricter_lunch_bounds(config, s, curr_soft_enable)
    [] name = "nbc-avail" ->
         available_when_here_if_mult(config, s, curr_soft_enable, employee_ids(config, "NBC",
             FALSE), {REGULAR}, 0)
    [] name = "nbc-avail-except-1" ->
         available_when_here_if_mult(config, s, curr_soft_enable, employee_ids(config, "NBC",
             FALSE), {REGULAR}, 1)
    [] name = "nbc-avail-except-2" ->
         available_when_here_if_mult(config, s, curr_soft_enable, employee_ids(config, "NBC",
             FALSE), {REGULAR}, 2)
    [] name = "nbc-avail-except-3" ->
         available_when_here_if_mult(config, s, curr_soft_enable, employee_ids(config, "NBC",
             FALSE), {REGULAR}, 3)
    [] name = "nbc-avail-except-4" ->
         available_when_here_if_mult(config, s, curr_soft_enable, employee_ids(config, "NBC",
             FALSE), {REGULAR}, 4)
    [] name = "nbc-diff-break" ->
         ban_simultaneous_break_lunch_for_subgroup(config, s, curr_soft_enable,
             employee_ids(config, "NBC", FALSE))
    [] name = "nbc-no-reg-if-alone" ->
         ban_register_for_nbc_if_alone(config, s, curr_soft_enable)
    [] name = "no-reg-first-thing" ->
         ban_register_for_non_cashier_as_first_thing_in_day_if_not_opening(config, s,
             curr_soft_enable)
    [] name = "register-diff-0" ->
         cap_non_cashier_appointment_delta(config, s, curr_soft_enable, {CASHIER, SUPPORT}, 0)
    [] name = "register-diff-1" ->
         cap_non_cashier_appointment_delta(config, s, curr_soft_enable, {CASHIER, SUPPORT}, 1)
    [] name = "register-diff-2" ->
         cap_non_cashier_appointment_delta(config, s, curr_soft_enable, {CASHIER, SUPPORT}, 2)
    [] name = "register-diff-3" ->
         cap_non_cashier_appointment_delta(config, s, curr_soft_enable, {CASHIER, SUPPORT}, 3)
    [] name = "register-diff-4" ->
         cap_non_cashier_appointment_delta(config, s, curr_soft_enable, {CASHIER, SUPPORT}, 4)
    [] name = "register-max-4-in-16" ->
         cap_register_in_span(config, s, curr_soft_enable, 4, 16)
    [] name = "register-max-6-in-16" ->
         cap_register_in_span(config, s, curr_soft_enable, 6, 16)

\* the procedures that raise while the model is built: ranges_min_to_max of no range
SoftFuncRaises(name, config) ==
  \/ name = "fulltime-avail" /\ employee_ids(config, "FULLTIME", FALSE) = {}
  \/ name \in {"nbc-avail", "nbc-avail-except-1", "nbc-avail-except-2",
               "nbc-avail-except-3", "nbc-avail-except-4"}
       /\ employee_ids(config, "NBC", FALSE) = {}

\* the loop of add_soft_constraints: every c.func() run under its own c.enable
add_soft_constraints(config, s, en) ==
  \A i \in DOMAIN soft_constraints :
    SoftFunc(soft_constraints[i].name, config, s, en[soft_constraints[i].name])

-----------------------------------------------------------------------------
(* Run.setup_idealistic_objectives: the constraints it adds at construction *)

AbsOf(x) == IF x < 0 THEN -x ELSE x

delta(a, b) == b - a
three_way_delta(a, b, c) == {delta(a, b), delta(a, c), delta(b, c)}

imbalances(order, shift_range, break1_slot, break2_slot, lunch_slot) ==
  CASE order = "L12" ->
         three_way_delta(break1_slot - (lunch_slot + 3), break2_slot - break1_slot,
                         shift_range.stop - break2_slot)
    [] order = "1L2" ->
         {delta(break1_slot - (shift_range.start - 1), lunch_slot - break1_slot),
          delta(break2_slot - (lunch_slot + 3), shift_range.stop - break2_slot)}
    [] order = "12L" ->
         three_way_delta(break1_slot - (shift_range.start - 1), break2_slot - break1_slot,
                         lunch_slot - break2_slot)

LunchTimes == {T1200, T100, T200, T300}

\* BreakLunchOrderHolds in which the order 'L12' constrains nothing
BreakLunchOrderHolds_L12Free(order, lunch_at_t, break1_slot, break2_slot, lunch_slot) ==
  IF order = "L12" THEN TRUE
  ELSE IF order = "1L2"
       THEN /\ lunch_at_t => break1_slot < lunch_slot
            /\ lunch_at_t => lunch_slot < break2_slot
  ELSE lunch_at_t => break2_slot < lunch_slot

\* the order constraint of one employee for one candidate lunch time
BreakLunchOrderHolds(order, lunch_at_t, break1_slot, break2_slot, lunch_slot) ==
  IF order = "L12" THEN lunch_at_t => lunch_slot < break1_slot
  ELSE IF order = "1L2"
       THEN /\ lunch_at_t => break1_slot < lunch_slot
            /\ lunch_at_t => lunch_slot < break2_slot
  ELSE lunch_at_t => break2_slot < lunch_slot

ideally_distribute_breaks_and_lunches(config, s) ==
  \A eid \in employee_ids(config, "ALL", FALSE) :
    /\ sched_index_domain(config, s, eid, BREAK, FALSE)
    /\ sched_index_domain(config, s, eid, BREAK, TRUE)
    /\ sched_index_domain(config, s, eid, LUNCH, FALSE)
    /\ LET break1_slot == sched_index(config, s, eid, BREAK, FALSE)
           break2_slot == sched_index(config, s, eid, BREAK, TRUE)
           lunch_slot == sched_index(config, s, eid, LUNCH, FALSE)
           shift == config.employees[eid].shift
       IN \A lunch_time \in LunchTimes :
            LET lunch_at_t == (lunch_slot = time_to_slot(lunch_time))
                order == break_lunch_order(shift, lunch_time)
            IN /\ BreakLunchOrderHolds(order, lunch_at_t, break1_slot, break2_slot,
                                       lunch_slot)
               \* imbalance_base = |imbalance| is a variable with domain 0..NUM_SLOTS
               /\ \A imbalance \in imbalances(order, shift.time_range, break1_slot,
                                               break2_slot, lunch_slot) :
                    AbsOf(imbalance) <= NUM_SLOTS

\* ideally_have_register_appts_in_groups and
\* ideally_have_breakroom_occupancy_under_five define auxiliary variables that
\* every assignment of the sched variables extends to
setup_idealistic_objectives(config, s) ==
  ideally_distribute_breaks_and_lunches(config, s)

\* Run.__init__: the assignments of sched and of the toggles the built model admits
ModelAdmits(config, s, en) ==
  /\ add_hard_constraints(config, s)
  /\ add_soft_constraints(config, s, en)
  /\ setup_idealistic_objectives(config, s)

-----------------------------------------------------------------------------
(* The solver (cp_model.CpSolver, outside the repository).  Its search     *)
(* visits assignments of the sched variables; the ones visited here start  *)
(* from the plans below and depart from one by flipping variables of one   *)
(* cell (one employee at one slot).                                        *)

MaxFlips == 2

\* an hour of lunch from slot on
LunchAt(slot) == slot .. (slot + SLOTS_PER_HOUR - 1)

Plan(lunch, breaks, cashier, support) ==
  [lunch |-> lunch, breaks |-> breaks, cashier |-> cashier, support |-> support]

\* the appointment the plan gives the employee at the slot
PlanCell(config, eid, plan, slot) ==
  LET name == config.employees[eid].name
      in_meeting == /\ name \in DOMAIN config.meetings
                    /\ \E i \in DOMAIN config.meetings[name] :
                         InRange(slot, config.meetings[name][i])
  IN IF ~InRange(slot, ShiftRange(config, eid)) THEN NOT_HERE
     ELSE IF slot \in plan.lunch THEN LUNCH
     ELSE IF slot \in plan.breaks THEN BREAK
     ELSE IF slot \in plan.cashier THEN CASHIER
     ELSE IF slot \in plan.support THEN SUPPORT
     ELSE IF in_meeting THEN MEETING
     ELSE IF config.employees[eid].dept = "CASHIER" THEN CASHIER
     ELSE REGULAR

PlanAssignment(config, plans) ==
  [eid \in DOMAIN config.employees |->
     [slot \in Slots |-> {PlanCell(config, eid, plans[eid + 1], slot)}]]

PlanB1 == Plan(LunchAt(8), {16, 21}, {}, {})
PlanT2 == Plan(LunchAt(8), {16, 21}, {}, {})
PlanA1 == Plan(LunchAt(12), {4, 20}, {8, 9, 16}, {})
PlanJ1 == Plan(LunchAt(16), {24, 29}, {10, 11, 21}, {})

\* day -> the plans the search starts from
Plans ==
  [day \in Days |->
     CASE day = 0 ->
            { <<PlanB1, PlanT2, PlanA1, PlanJ1>>,
              \* J1's second break a quarter of an hour later
              <<PlanB1, PlanT2, PlanA1, Plan(LunchAt(16), {24, 30}, {10, 11, 21}, {})>>,
              \* A1 relieves the cashier five times within four hours
              <<PlanB1, PlanT2, Plan(LunchAt(12), {4, 20}, {8, 9, 10, 11, 16}, {}),
                Plan(LunchAt(16), {24, 29}, {21}, {})>>,
              \* T2's lunch starts a quarter past twelve
              <<PlanB1, Plan(LunchAt(9), {16, 21}, {}, {}), PlanA1, PlanJ1>>,
              \* B1 takes a break before the 12:00 lunch
              <<Plan(LunchAt(8), {5, 21}, {}, {}), PlanT2,
                Plan(LunchAt(12), {4, 20}, {5, 8, 9}, {}), PlanJ1>>,
              \* A1 has lunch at 3:00, after both breaks
              <<PlanB1, PlanT2, Plan(LunchAt(20), {4, 14}, {8, 9, 16}, {}), PlanJ1>> }
       [] day = 1 ->
            { <<PlanB1, PlanT2, Plan(LunchAt(12), {4, 20}, {8, 9, 16}, {28, 29}), PlanJ1>>,
              \* the second register opens a quarter of an hour late
              <<PlanB1, PlanT2, Plan(LunchAt(12), {4, 20}, {8, 9, 16}, {29}), PlanJ1>> }
       [] day = 2 -> { <<Plan(LunchAt(12), {6, 30}, {}, {})>> }
       [] OTHER -> {}]

StartAssignments ==
  [day \in Days |-> {PlanAssignment(ConfigOf[day], plans) : plans \in Plans[day]}]

\* toggles: name -> BOOLEAN
AllEnabled == [name \in SoftNames |-> TRUE]
AllDisabled == [name \in SoftNames |-> FALSE]
EnabledExcept(disabled_constraints) == [name \in SoftNames |-> name \notin disabled_constraints]

\* the most toggles the assignment lets be true
MostEnabled(config, s) == [name \in SoftNames |-> SoftFunc(name, config, s, TRUE)]

\* Ladder with two of its lists exchanged
Ladder_Reordered ==
  << {},
     {"cashier-diff-0"},
     {"register-diff-0"},
     {"cashier-diff-0", "register-diff-0", "cashier-diff-1", "register-diff-1"},
     {"cashier-diff-0", "register-diff-0", "cashier-diff-1"},
     {"cashier-diff-0", "register-diff-0", "register-diff-1"},
     {"cashier-diff-0", "register-diff-0"} >>

\* main(): the forced-disabled lists, in the order they are tried
Ladder ==
  << {},
     {"cashier-diff-0"},
     {"register-diff-0"},
     {"cashier-diff-0", "register-diff-0"},
     {"cashier-diff-0", "register-diff-0", "cashier-diff-1"},
     {"cashier-diff-0", "register-diff-0", "register-diff-1"},
     {"cashier-diff-0", "register-diff-0", "cashier-diff-1", "register-diff-1"} >>

\* the toggle assignments the search proposes
Toggles == {AllEnabled, AllDisabled, EnabledExcept(Ladder[Len(Ladder)])}

\* the value of the variable is inverted
Flipped(s, v) ==
  [s EXCEPT ![v[1]][v[2]] = IF v[3] \in @ THEN @ \ {v[3]} ELSE @ \cup {v[3]}]

Verdict(config, s, en) == IF ModelAdmits(config, s, en) THEN "accepted" ELSE "rejected"

\* the search starts at a plan of a day whose model can be built
InitSearch ==
  /\ day_of_week \in {day \in Days : StartAssignments[day] # {}}
  /\ pc = "search"
  /\ sched \in StartAssignments[day_of_week]
  /\ enable \in Toggles
  /\ edits = {}
  /\ verdict = Verdict(ConfigOf[day_of_week], sched, enable)
  /\ rung = 0 /\ pins = {} /\ fixed = {} /\ max_time = 0 /\ status = "NONE"
  /\ feasible_enable = AllEnabled /\ refinements = 0 /\ attempts = << >>
  /\ trip = << >> /\ made = NotMade

\* the variables the search may invert next: it branches on the variables
\* of one cell, in index order
Branches(config, done) ==
  IF done = {} THEN SchedVars(config)
  ELSE LET e == CHOOSE e \in done : TRUE
       IN {<<e[1], e[2], appt>> : appt \in {a \in Appointments : \A d \in done : d[3] < a}}

\* the search inverts a variable and the model is evaluated on the result
Flip(v) ==
  /\ pc = "search"
  /\ Cardinality(edits) < MaxFlips
  /\ edits' = edits \cup {v}
  /\ sched' = Flipped(sched, v)
  /\ verdict' = Verdict(ConfigOf[day_of_week], sched', enable)
  /\ UNCHANGED <<trip, made, day_of_week, pc, rung, pins, fixed, max_time, status, enable,
                 feasible_enable, refinements, attempts>>

NextSearch == \E v \in Branches(ConfigOf[day_of_week], edits) : Flip(v)

SpecSearch == InitSearch /\ [][NextSearch]_vars

-----------------------------------------------------------------------------
(* main(): the ladder of attempts, the attempt with nothing assumed and    *)
(* make_schedule_idealistic.  A pin is <<name, value>>: the constraint     *)
(* c.enable == value of the soft constraint of that name.                  *)

NoValue == << >>
\* the statuses of a found solution, with UNKNOWN taken for one
Found_WithUnknown == {"OPTIMAL", "FEASIBLE", "UNKNOWN"}

Found == {"OPTIMAL", "FEASIBLE"}

\* RungPins with c.name in disabled_constraints
RungPins_Inverted(disabled_constraints) ==
  {<<name, name \in disabled_constraints>> : name \in SoftNames}

\* main(): per_run_constraints
RungPins(disabled_constraints) ==
  {<<name, name \notin disabled_constraints>> : name \in SoftNames}

\* the loop over per_run_constraints left out
Cleared_Nothing(p, per_run_constraints) == p

\* main(): constraint.Proto().Clear() for each of per_run_constraints
Cleared(p, per_run_constraints) == p \ per_run_constraints

\* make_schedule_idealistic without its first loop
IdealisticPins_None(en) == {}

\* IdealisticPins that pins every toggle to the opposite of its solved value
IdealisticPins_Inverted(en) == {<<name, ~en[name]>> : name \in SoftNames}

\* make_schedule_idealistic: constraint.enable == solver.Value(constraint.enable)
IdealisticPins(en) == {<<name, en[name]>> : name \in SoftNames}

\* what Config() and Run(config) end with
BuildOutcome(day) ==
  LET config == ConfigOf[day]
  IN IF \E i \in DOMAIN SCHEDULE[day] :
          /\ IsTemplate(SCHEDULE[day][i][1])
          /\ ~ShiftTableHas(SCHEDULE[day][i][1], EMPLOYEE_INFO[SCHEDULE[day][i][2]][1])
     THEN "KeyError"
     ELSE IF RegisterCountErrors(config) # {} THEN "SystemExit"
     ELSE IF \E e_name \in DOMAIN config.meetings : ids_named(config, e_name) = {}
          THEN "AssertionError"
     ELSE IF \E e_name \in DOMAIN config.meetings :
               Cardinality(ids_named(config, e_name)) > 1
          THEN "SystemExit"
     ELSE IF \E name \in SoftNames : SoftFuncRaises(name, config) THEN "ValueError"
     ELSE "built"

\* the toggle assignments the solver proposes
SolverToggles(day) ==
  Toggles \cup {EnabledExcept(Ladder[r]) : r \in DOMAIN Ladder}
          \cup {MostEnabled(ConfigOf[day], s) : s \in StartAssignments[day]}

\* what the solver proposes on each day: <<day, assignment, toggles>>
Proposals ==
  UNION {{<<day, s, en>> : s \in StartAssignments[day], en \in SolverToggles(day)} :
           day \in Days}

\* the proposals the built model admits
Admitted == {sol \in Proposals : ModelAdmits(ConfigOf[sol[1]], sol[2], sol[3])}

\* the solutions the solver can come up with under the pins in force
Solutions(day, in_force) ==
  {<<sol[2], sol[3]>> :
     sol \in {a \in Admitted : a[1] = day /\ \A pin \in in_force : a[3][pin[1]] = pin[2]}}

\* the statuses with which a solve can end without a solution
Unsolved(day, in_force) ==
  {"UNKNOWN"} \cup (IF Solutions(day, in_force) = {} THEN {"INFEASIBLE"} ELSE {})

Attempt(kind, r, forced, in_force, st, en) ==
  [kind |-> kind, rung |-> r, forced |-> forced, in_force |-> in_force,
   budget |-> max_time, status |-> st, enable |-> en]

\* make_schedule_idealistic leaving the budget of the ladder in place
max_time_in_seconds_NotRaised(kind) == IF kind = "fallback" THEN 60 ELSE 15

\* solver.parameters.max_time_in_seconds, as set for each kind of solve
max_time_in_seconds(kind) ==
  CASE kind = "ladder" -> 15
    [] kind = "fallback" -> 60
    [] kind = "idealistic" -> 60

IsFallback == rung > Len(Ladder)
CurrentKind == IF IsFallback THEN "fallback" ELSE "ladder"
CurrentForced == IF IsFallback THEN {} ELSE Ladder[rung]

Init ==
  /\ day_of_week \in Days
  /\ pc = "start"
  /\ rung = 0 /\ pins = {} /\ fixed = {} /\ max_time = 0 /\ status = "NONE"
  /\ sched = NoValue /\ enable = NoValue /\ feasible_enable = NoValue
  /\ refinements = 0 /\ attempts = << >>
  /\ edits = {} /\ verdict = "none"
  /\ trip = << >> /\ made = NotMade

\* main(): Config(), Run(config), the solver and its parameters
Build ==
  /\ pc = "start"
  /\ pc' = IF BuildOutcome(day_of_week) = "built" THEN "pin" ELSE BuildOutcome(day_of_week)
  /\ rung' = 1
  /\ max_time' = max_time_in_seconds("ladder")
  /\ UNCHANGED <<trip, made, day_of_week, pins, fixed, status, sched, enable, feasible_enable,
                 refinements, attempts, edits, verdict>>

\* main(): the head of the loop body
PinRung ==
  /\ pc = "pin"
  /\ pins' = pins \cup RungPins(Ladder[rung])
  /\ pc' = "solve"
  /\ UNCHANGED <<trip, made, day_of_week, rung, fixed, max_time, status, sched, enable,
                 feasible_enable, refinements, attempts, edits, verdict>>

\* attempt_to_solve: OPTIMAL or FEASIBLE
SolveFinds ==
  /\ pc = "solve"
  /\ \E sol \in Solutions(day_of_week, pins \cup fixed) : \E st \in Found :
       /\ status' = st
       /\ sched' = sol[1]
       /\ enable' = sol[2]
       /\ feasible_enable' = sol[2]
       /\ attempts' = Append(attempts,
            Attempt(CurrentKind, rung, CurrentForced, pins \cup fixed, st, sol[2]))
  /\ pc' = "idealistic"
  /\ UNCHANGED <<trip, made, day_of_week, rung, pins, fixed, max_time, refinements, edits, verdict>>

\* attempt_to_solve: INFEASIBLE or UNKNOWN, and main() after it returned False
SolveFails ==
  /\ pc = "solve"
  /\ \E st \in Unsolved(day_of_week, pins \cup fixed) :
       /\ status' = st
       /\ attempts' = Append(attempts,
            Attempt(CurrentKind, rung, CurrentForced, pins \cup fixed, st, NoValue))
  /\ pc' = IF IsFallback THEN "failed" ELSE "clear"
  /\ UNCHANGED <<trip, made, day_of_week, rung, pins, fixed, max_time, sched, enable,
                 feasible_enable, refinements, edits, verdict>>

\* attempt_to_solve: MODEL_INVALID
SolveRejectsModel ==
  /\ pc = "solve"
  /\ status' = "MODEL_INVALID"
  /\ attempts' = Append(attempts,
       Attempt(CurrentKind, rung, CurrentForced, pins \cup fixed, "MODEL_INVALID", NoValue))
  /\ pc' = "SystemExit"
  /\ UNCHANGED <<trip, made, day_of_week, rung, pins, fixed, max_time, sched, enable,
                 feasible_enable, refinements, edits, verdict>>

\* main(): the tail of the loop body and, after the last list, the larger budget
ClearPins ==
  /\ pc = "clear"
  /\ pins' = Cleared(pins, RungPins(Ladder[rung]))
  /\ rung' = rung + 1
  /\ IF rung < Len(Ladder)
       THEN pc' = "pin" /\ UNCHANGED max_time
       ELSE pc' = "solve" /\ max_time' = max_time_in_seconds("fallback")
  /\ UNCHANGED <<trip, made, day_of_week, fixed, status, sched, enable, feasible_enable,
                 refinements, attempts, edits, verdict>>

\* make_schedule_idealistic: the model is the one the solve before it has
\* validated, with the pins, the hints and the new objective added, so the
\* solver does not answer MODEL_INVALID
Idealistic ==
  /\ pc = "idealistic"
  /\ fixed' = fixed \cup IdealisticPins(enable)
  /\ max_time' = max_time_in_seconds("idealistic")
  /\ refinements' = refinements + 1
  /\ LET sols == Solutions(day_of_week, pins \cup fixed')
     IN \E st \in Unsolved(day_of_week, pins \cup fixed')
                    \cup (IF sols = {} THEN {} ELSE Found) :
          /\ status' = st
          /\ IF st \in Found
               THEN \E sol \in sols :
                      /\ sched' = sol[1]
                      /\ enable' = sol[2]
                      /\ attempts' = Append(attempts,
                           [Attempt("idealistic", rung, {}, pins \cup fixed', st, sol[2])
                              EXCEPT !.budget = max_time'])
               ELSE /\ UNCHANGED <<sched, enable>>
                    /\ attempts' = Append(attempts,
                         [Attempt("idealistic", rung, {}, pins \cup fixed', st, NoValue)
                            EXCEPT !.budget = max_time'])
          /\ pc' = IF st \in {"INFEASIBLE", "MODEL_INVALID"}
                     THEN "AssertionError" ELSE "done"
  /\ UNCHANGED <<trip, made, day_of_week, rung, pins, feasible_enable, edits, verdict>>

Next ==
  \/ Build
  \/ PinRung
  \/ SolveFinds
  \/ SolveFails
  \/ SolveRejectsModel
  \/ ClearPins
  \/ Idealistic

Spec == Init /\ [][Next]_vars

-----------------------------------------------------------------------------
(* Store and Shift on their own: the conversions between slots and times,  *)
(* applied in turn to a slot or to a time, and the construction of a Shift *)
(* followed by its template-keyed queries.                                 *)

MaxTrip == 4

\* the times 'H:MM' and 'HH:MM' from 10 AM to 8 PM
TimeTexts ==
  LET written(h) == IF h < 10 THEN {FormatInt(h), FormatInt02(h)} ELSE {FormatInt(h)}
      open == {hm \in ((1 .. 8) \cup (TIME_OPEN .. 12)) \X (0 .. 59) :
                 hm[1] = TIME_CLOSE - 12 => hm[2] = 0}
  IN UNION {{ht \o <<":">> \o FormatInt02(hm[2]) : ht \in written(hm[1])} : hm \in open}

\* the templates, the template ranges written out as 'starttime-endtime', a
\* full day and a shift that ends before noon
ShiftConfigs ==
  {ConfigE, ConfigM, ConfigL}
    \cup {ShiftTable(k[1], k[2])[1] \o <<"-">> \o ShiftTable(k[1], k[2])[2] :
            k \in {k \in {ConfigE, ConfigM, ConfigL} \X BOOLEAN : ShiftTableHas(k[1], k[2])}}
    \cup {Config1000to800, T1100 \o <<"-">> \o <<"1", "1", ":", "4", "5">>}

InitClasses ==
  /\ pc = "classes"
  /\ \/ \E x \in 0 .. NUM_SLOTS : trip = <<[kind |-> "slot", val |-> x]>>
     \/ \E t \in TimeTexts : trip = <<[kind |-> "time", val |-> t]>>
     \/ trip = << >>
  /\ made = NotMade
  /\ day_of_week = 0
  /\ rung = 0 /\ pins = {} /\ fixed = {} /\ max_time = 0 /\ status = "NONE"
  /\ sched = NoValue /\ enable = NoValue /\ feasible_enable = NoValue
  /\ refinements = 0 /\ attempts = << >>
  /\ edits = {} /\ verdict = "none"

\* Store.slot_to_time applied to the slot last obtained
SlotToTime ==
  /\ pc = "classes"
  /\ Len(trip) > 0 /\ Len(trip) < MaxTrip
  /\ trip[Len(trip)].kind = "slot"
  /\ trip' = Append(trip, [kind |-> "time", val |-> slot_to_time(trip[Len(trip)].val)])
  /\ UNCHANGED <<made, day_of_week, pc, rung, pins, fixed, max_time, status, sched,
                 enable, feasible_enable, refinements, attempts, edits, verdict>>

\* Store.time_to_slot applied to the time last obtained
TimeToSlot ==
  /\ pc = "classes"
  /\ Len(trip) > 0 /\ Len(trip) < MaxTrip
  /\ trip[Len(trip)].kind = "time"
  /\ trip' = Append(trip, [kind |-> "slot", val |-> time_to_slot(trip[Len(trip)].val)])
  /\ UNCHANGED <<made, day_of_week, pc, rung, pins, fixed, max_time, status, sched,
                 enable, feasible_enable, refinements, attempts, edits, verdict>>

\* Shift(config, is_fulltime): the object, or the KeyError of the table
MakeShift(config, is_fulltime) ==
  /\ pc = "classes"
  /\ Len(trip) = 0
  /\ made.stage = "none"
  /\ made' = IF IsTemplate(config) /\ ~ShiftTableHas(config, is_fulltime)
               THEN [stage |-> "init", raised |-> "KeyError",
                     config |-> config, is_fulltime |-> is_fulltime]
               ELSE [stage |-> "made", raised |-> "none",
                     config |-> config, is_fulltime |-> is_fulltime,
                     shift |-> Shift(config, is_fulltime)]
  /\ UNCHANGED <<trip, day_of_week, pc, rung, pins, fixed, max_time, status, sched,
                 enable, feasible_enable, refinements, attempts, edits, verdict>>

\* lunch_priority(), lunch_slots_strict() and break_lunch_order(t) of the
\* object made, or the KeyError of the Shift('M', True) that similar() makes
QueryShift ==
  /\ pc = "classes"
  /\ made.stage = "made"
  /\ made' =
       IF /\ ~IsTemplate(made.config)
          /\ ~(made.shift.time_range.start < time_to_slot(T1100))
          /\ made.shift.time_range.stop < time_to_slot(T1200)
          /\ made.is_fulltime
         THEN [stage |-> "queried", raised |-> "KeyError",
               config |-> made.config, is_fulltime |-> made.is_fulltime,
               shift |-> made.shift]
         ELSE [stage |-> "queried", raised |-> "none",
               config |-> made.config, is_fulltime |-> made.is_fulltime,
               shift |-> made.shift,
               lunch_priority |-> lunch_priority(made.shift),
               lunch_slots_strict |-> lunch_slots_strict(made.shift),
               break_lunch_order |->
                 [t \in LunchTimes |-> break_lunch_order(made.shift, t)]]
  /\ UNCHANGED <<trip, day_of_week, pc, rung, pins, fixed, max_time, status, sched,
                 enable, feasible_enable, refinements, attempts, edits, verdict>>

NextClasses ==
  \/ SlotToTime
  \/ TimeToSlot
  \/ \E config \in ShiftConfigs : \E is_fulltime \in BOOLEAN : MakeShift(config, is_fulltime)
  \/ QueryShift

SpecClasses == InitClasses /\ [][NextClasses]_vars

-----------------------------------------------------------------------------
(* cap_simultaneous_appointments on its own: the procedure of one soft     *)
(* constraint, run with its toggle true, on a day where more and more      *)
(* employees are in the break room at the same slot.                       *)

MaxCrowd == 8

\* a day of MaxCrowd employees, all present all day: one full-time NBC
\* employee and part-time SD employees
CrowdConfig ==
  [employees |->
     [eid \in 0 .. (MaxCrowd - 1) |->
        [shift |-> Shift(Config1000to800, eid = 0),
         name |-> FormatInt(eid),
         dept |-> IF eid = 0 THEN "NBC" ELSE "SD"]],
   meetings |-> [name \in {} |-> << >>],
   register_count |-> <<[count |-> 1, start |-> time_to_slot(T1000)]>>]

\* the soft constraints whose procedure is cap_simultaneous_appointments
CapNames ==
  {"break-3", "break-4", "break-5", "breakroom-4-if-12", "breakroom-5",
   "breakroom-6", "breakroom-7", "lunch-4-if-16"}

\* the toggles with one soft constraint enabled
OnlyEnabled(c_name) == [name \in SoftNames |-> name = c_name]

\* the assignment with the employee on appt at 12:00
Joined(s, eid, appt) == [s EXCEPT ![eid][time_to_slot(T1200)] = {appt}]

\* whether c.func() of the enabled soft constraint admits the assignment
CapVerdict(en, s) ==
  IF \A name \in CapNames : en[name] => SoftFunc(name, CrowdConfig, s, TRUE)
    THEN "accepted" ELSE "rejected"

InitCrowd ==
  /\ pc = "crowd"
  /\ sched = [eid \in DOMAIN CrowdConfig.employees |-> [slot \in Slots |-> {REGULAR}]]
  /\ \E c_name \in CapNames : enable = OnlyEnabled(c_name)
  /\ edits = {}
  /\ verdict = CapVerdict(enable, sched)
  /\ day_of_week = 0
  /\ rung = 0 /\ pins = {} /\ fixed = {} /\ max_time = 0 /\ status = "NONE"
  /\ feasible_enable = NoValue /\ refinements = 0 /\ attempts = << >>
  /\ trip = << >> /\ made = NotMade

\* the next employee, in id order, takes a break or lunch at 12:00
JoinCrowd(appt) ==
  /\ pc = "crowd"
  /\ Cardinality(edits) < MaxCrowd
  /\ edits' = edits \cup {<<Cardinality(edits), time_to_slot(T1200), appt>>}
  /\ sched' = Joined(sched, Cardinality(edits), appt)
  /\ verdict' = CapVerdict(enable, sched')
  /\ UNCHANGED <<trip, made, day_of_week, pc, rung, pins, fixed, max_time, status,
                 enable, feasible_enable, refinements, attempts>>

NextCrowd == \E appt \in {BREAK, LUNCH} : JoinCrowd(appt)

SpecCrowd == InitCrowd /\ [][NextCrowd]_vars

-----------------------------------------------------------------------------
(* Properties of the schedules the model accepts                           *)

CurrentConfig == ConfigOf[day_of_week]
Accepted == pc = "search" /\ verdict = "accepted"
AppointmentsAt(eid, appt) == {slot \in Slots : appt \in sched[eid][slot]}

\* C1: in every assignment that satisfies the hard constraints, whatever the
\* toggles are, every employee has at every slot 0..NUM_SLOTS-1 exactly one
\* of the seven appointment variables true.
C1_ExactlyOneAppointment ==
  (pc = "search" /\ add_hard_constraints(CurrentConfig, sched)) =>
    \A eid \in DOMAIN CurrentConfig.employees : \A slot \in 0 .. (NUM_SLOTS - 1) :
      \E appt \in {NOT_HERE, REGULAR, LUNCH, BREAK, CASHIER, SUPPORT, MEETING} :
        sched[eid][slot] = {appt}

C1_Witness ==
  /\ pc = "search" /\ edits # {}
  /\ add_hard_constraints(CurrentConfig, sched)

\* C2: in every accepted schedule every employee has exactly 2 BREAK slots
\* and exactly 4 LUNCH slots, and the LUNCH slots are the block s .. s+3 for
\* exactly one start s among 12:00, 1:00, 2:00 and 3:00 (Shift.lunch_slots).
C2_TwoBreaksOneLunchHour ==
  Accepted =>
    /\ lunch_slots = {time_to_slot(t) : t \in {T1200, T100, T200, T300}}
    /\ \A eid \in DOMAIN CurrentConfig.employees :
         /\ Cardinality(AppointmentsAt(eid, BREAK)) = 2
         /\ Cardinality(AppointmentsAt(eid, LUNCH)) = 4
         /\ Cardinality({st \in lunch_slots :
                           AppointmentsAt(eid, LUNCH) = st .. (st + 3)}) = 1

C2_Witness ==
  /\ Accepted /\ edits # {}
  /\ \E eid \in DOMAIN CurrentConfig.employees :
       AppointmentsAt(eid, LUNCH) = time_to_slot(T200) .. (time_to_slot(T300) - 1)

\* C3: in every accepted schedule NOT_HERE is true at a slot exactly when the
\* slot is outside the employee's shift range, and no other appointment is
\* true outside the range.
C3_NotHereOutsideShift ==
  Accepted =>
    \A eid \in DOMAIN CurrentConfig.employees : \A slot \in Slots :
      LET shift_range == CurrentConfig.employees[eid].shift.time_range
          outside == slot < shift_range.start \/ slot >= shift_range.stop
      IN /\ (NOT_HERE \in sched[eid][slot]) <=> outside
         /\ outside => sched[eid][slot] = {NOT_HERE}

C3_Witness ==
  /\ Accepted /\ edits # {}
  /\ \E eid \in DOMAIN CurrentConfig.employees :
       /\ AppointmentsAt(eid, NOT_HERE) # {}
       /\ AppointmentsAt(eid, NOT_HERE) # Slots

\* the count of the last register_count epoch whose start is <= the slot
CountInForce(config, slot) ==
  LET started == {i \in DOMAIN config.register_count :
                    config.register_count[i].start <= slot}
      last == CHOOSE i \in started : \A j \in started : j <= i
  IN config.register_count[last].count

\* C4: in every accepted schedule, at every slot the number of CASHIER plus
\* SUPPORT assignments equals the register count in force, the count of the
\* last epoch whose start slot is <= the slot.
C4_RegisterCountInForce ==
  Accepted =>
    \A slot \in Slots :
      Cardinality({eid \in DOMAIN CurrentConfig.employees : CASHIER \in sched[eid][slot]})
        + Cardinality({eid \in DOMAIN CurrentConfig.employees : SUPPORT \in sched[eid][slot]})
        = CountInForce(CurrentConfig, slot)

C4_Witness ==
  /\ Accepted /\ edits # {}
  /\ Len(CurrentConfig.register_count) > 1
  /\ \E slot \in Slots : CountInForce(CurrentConfig, slot) = 2

\* C5: in every accepted schedule, at every slot where an employee whose
\* department is not CASHIER has the CASHIER appointment, exactly one
\* employee in total has the CASHIER appointment.
C5_NonCashierIsSoleCashier ==
  Accepted =>
    \A slot \in Slots :
      (\E eid \in DOMAIN CurrentConfig.employees :
         /\ CurrentConfig.employees[eid].dept # "CASHIER"
         /\ CASHIER \in sched[eid][slot])
      => Cardinality({eid \in DOMAIN CurrentConfig.employees :
                        CASHIER \in sched[eid][slot]}) = 1

C5_Witness ==
  /\ Accepted /\ edits # {}
  /\ \E slot \in Slots : \E eid \in DOMAIN CurrentConfig.employees :
       /\ CurrentConfig.employees[eid].dept # "CASHIER"
       /\ CASHIER \in sched[eid][slot]
       /\ CountInForce(CurrentConfig, slot) = 1

\* C6: every restriction a soft constraint's procedure adds is enforced only
\* when its own toggle is true: a schedule that satisfies the hard
\* constraints, the constraints of setup_idealistic_objectives and every
\* soft constraint whose toggle is true is accepted.
C6_DisabledImposesNothing ==
  (/\ pc = "search"
   /\ add_hard_constraints(CurrentConfig, sched)
   /\ setup_idealistic_objectives(CurrentConfig, sched)
   /\ \A name \in SoftNames :
        enable[name] => SoftFunc(name, CurrentConfig, sched, TRUE))
  => verdict = "accepted"

-----------------------------------------------------------------------------
(* Properties of main()'s attempts                                         *)

Unfound == {"INFEASIBLE", "UNKNOWN"}
LadderAttempts == {i \in DOMAIN attempts : attempts[i].kind = "ladder"}
ExpectedPins(forced) == {<<name, name \notin forced>> : name \in SoftNames}

\* C7, as the spec states it: along the ladder, tried in order, each rung's
\* forced-disabled set contains the set of every rung tried before it.
C7_LaterRungContainsEarlier ==
  \A i \in LadderAttempts : \A j \in LadderAttempts :
    i < j => attempts[i].forced \subseteq attempts[j].forced

\* C7, amended: along the ladder, tried in order, the number of constraints
\* forced off never decreases, and the seventh rung's set contains the set
\* of every rung tried before it; a rung in between may re-enable a
\* constraint the rung before it forced off.
C7_LadderWidens ==
  \A i \in LadderAttempts : \A j \in LadderAttempts :
    i < j =>
      /\ Cardinality(attempts[i].forced) <= Cardinality(attempts[j].forced)
      /\ j = 7 => attempts[i].forced \subseteq attempts[j].forced

C7_Witness ==
  /\ Cardinality(LadderAttempts) = 7
  /\ \E i \in LadderAttempts \ {7} :
       ~(attempts[i].forced \subseteq attempts[i + 1].forced)

\* C8: the first attempt forces no soft constraint off; in each ladder
\* attempt every toggle is pinned to true iff its name is not in the rung's
\* forced-disabled list; the first attempt that ends OPTIMAL or FEASIBLE
\* is followed by exactly one refinement and by no other attempt.
C8_AttemptOrder ==
  /\ attempts # << >> => attempts[1].kind = "ladder" /\ attempts[1].forced = {}
  /\ \A i \in LadderAttempts :
       /\ \A name \in SoftNames :
            <<name, name \notin attempts[i].forced>> \in attempts[i].in_force
       /\ attempts[i].status \in Found =>
            \A name \in SoftNames :
              attempts[i].enable[name] = (name \notin attempts[i].forced)
  /\ \A i \in DOMAIN attempts :
       (attempts[i].kind # "idealistic" /\ attempts[i].status \in Found) =>
         \/ i = Len(attempts) /\ pc = "idealistic" /\ refinements = 0
         \/ /\ i + 1 = Len(attempts)
            /\ attempts[i + 1].kind = "idealistic"
            /\ refinements = 1
            /\ pc \in {"done", "AssertionError"}
  /\ \A i \in DOMAIN attempts :
       attempts[i].kind = "idealistic" =>
         /\ i > 1
         /\ attempts[i - 1].kind # "idealistic"
         /\ attempts[i - 1].status \in Found
         /\ \A j \in 1 .. (i - 2) : attempts[j].status \notin Found

C8_Witness ==
  /\ pc = "done"
  /\ Len(attempts) > 2
  /\ attempts[Len(attempts) - 1].kind = "ladder"
  /\ attempts[Len(attempts) - 1].forced # {}

\* C9: at every ladder solve exactly the pins of the rung being tried are in
\* force (those of the rungs that ended INFEASIBLE or UNKNOWN have been
\* retracted) and the budget is 15 s; once all 7 rungs have failed one
\* attempt is made with no toggle pinned and a budget of 60 s, and if it
\* fails too the run ends in failure without refinement.
C9_RetractThenFallback ==
  /\ \A i \in LadderAttempts :
       /\ attempts[i].rung = i
       /\ attempts[i].in_force = ExpectedPins(attempts[i].forced)
       /\ attempts[i].budget = 15
       /\ \A j \in 1 .. (i - 1) :
            attempts[j].kind = "ladder" /\ attempts[j].status \in Unfound
  /\ \A i \in DOMAIN attempts :
       attempts[i].kind = "fallback" =>
         /\ i = 8
         /\ attempts[i].in_force = {}
         /\ attempts[i].budget = 60
         /\ \A j \in 1 .. 7 :
              attempts[j].kind = "ladder" /\ attempts[j].status \in Unfound
  /\ (Cardinality(LadderAttempts) = 7 /\ Len(attempts) = 7
        /\ attempts[7].status \in Unfound) =>
       \/ pc = "clear"
       \/ pc = "solve" /\ pins = {} /\ max_time = 60
  /\ pc = "failed" =>
       /\ Len(attempts) = 8
       /\ attempts[8].kind = "fallback"
       /\ attempts[8].status \in Unfound
       /\ refinements = 0

C9_Witness ==
  /\ pc = "failed"
  /\ Len(attempts) = 8
  /\ attempts[3].status = "INFEASIBLE"

\* C10: in every solution the refinement solve produces, each toggle has the
\* value it had in the solution that triggered refinement, after a ladder
\* rung and after the attempt with nothing pinned alike.
C10_RefinementKeepsToggles ==
  (pc = "done" /\ status \in Found) =>
    /\ enable = feasible_enable
    /\ attempts[Len(attempts)].enable = attempts[Len(attempts) - 1].enable

C10_Witness ==
  /\ pc = "done" /\ status \in Found
  /\ attempts[Len(attempts) - 1].kind = "fallback"
  /\ \E name \in SoftNames : ~enable[name]

-----------------------------------------------------------------------------
(* Model construction and the register counts                              *)

Raised == {"KeyError", "SystemExit", "AssertionError", "ValueError"}
\* Config() and Run(config) have run, and with what end
ConstructionOver == pc # "start"
ConstructionAborted == pc \in Raised /\ attempts = << >>
ConstructionCompleted == ConstructionOver /\ ~ConstructionAborted

DesignatedCashiersHere(config, slot) ==
  {eid \in DOMAIN config.employees :
     /\ config.employees[eid].dept = "CASHIER"
     /\ ShiftRange(config, eid).start <= slot
     /\ slot < ShiftRange(config, eid).stop}

\* a roster of two employees, both of department CASHIER and both working the
\* whole day, with a register count of 1 all day
TwoCashiersOneRegister(config) ==
  /\ Cardinality(DOMAIN config.employees) = 2
  /\ \A eid \in DOMAIN config.employees :
       /\ config.employees[eid].dept = "CASHIER"
       /\ ShiftRange(config, eid) = Range(0, NUM_SLOTS)
  /\ \A slot \in Slots : CountInForce(config, slot) = 1

\* C11, as the spec states it: with a roster of two designated cashiers, both
\* working the whole day, and a register count of 1 all day, construction
\* succeeds, and a schedule that is found has exactly one employee on CASHIER
\* in every slot.
C11_TwoCashiersOneRegisterFeasible ==
  (TwoCashiersOneRegister(CurrentConfig) /\ ConstructionOver) =>
    /\ ConstructionCompleted
    /\ sched # NoValue =>
         \A slot \in Slots :
           Cardinality({eid \in DOMAIN CurrentConfig.employees :
                          CASHIER \in sched[eid][slot]}) = 1

\* C11, amended: with a roster of two designated cashiers, both working the
\* whole day, and a register count of 1 all day, construction aborts with
\* SystemExit, and no solve is attempted.
C11_TwoCashiersOneRegisterAborts ==
  (TwoCashiersOneRegister(CurrentConfig) /\ ConstructionOver) =>
    /\ pc = "SystemExit"
    /\ attempts = << >>
    /\ status = "NONE"
    /\ sched = NoValue

C11_Witness ==
  /\ TwoCashiersOneRegister(CurrentConfig)
  /\ ConstructionOver
  /\ pc = "SystemExit"

\* some slot at which the register count in force is 3 and two designated
\* cashiers are present, and no slot with more designated cashiers than two
ThreeRegistersTwoCashiers(config) ==
  /\ \E slot \in Slots :
       /\ CountInForce(config, slot) = 3
       /\ Cardinality(DesignatedCashiersHere(config, slot)) = 2
  /\ \A slot \in Slots : Cardinality(DesignatedCashiersHere(config, slot)) <= 2

RegisterShort(config) ==
  \E slot \in Slots :
    CountInForce(config, slot) < Cardinality(DesignatedCashiersHere(config, slot))

\* a name of config.MEETINGS borne by several employees of the day
MeetingNameAmbiguous(config) ==
  \E e_name \in DOMAIN config.meetings :
    Cardinality({eid \in DOMAIN config.employees :
                   config.employees[eid].name = e_name}) > 1

\* C13, as the spec states it: construction aborts with SystemExit, before
\* any solver call, if and only if some slot's register count in force is
\* less than the number of designated cashiers whose shift contains the slot;
\* otherwise construction completes.
C13_AbortsIffRegisterShort ==
  ConstructionOver =>
    /\ (pc = "SystemExit" /\ attempts = << >>) <=> RegisterShort(CurrentConfig)
    /\ ~RegisterShort(CurrentConfig) => ConstructionCompleted

\* C13, amended: if some slot's register count in force is less than the
\* number of designated cashiers whose shift contains the slot, construction
\* aborts with SystemExit before any solver call; construction that aborts
\* with SystemExit has such a slot or a meeting name borne by several
\* employees; and construction without such a slot completes or aborts with
\* another error (SystemExit for the ambiguous name, AssertionError,
\* ValueError or KeyError).
C13_RegisterShortAborts ==
  ConstructionOver =>
    /\ RegisterShort(CurrentConfig) => (pc = "SystemExit" /\ attempts = << >>)
    /\ (pc = "SystemExit" /\ attempts = << >>) =>
         (RegisterShort(CurrentConfig) \/ MeetingNameAmbiguous(CurrentConfig))
    /\ (~RegisterShort(CurrentConfig) /\ ~MeetingNameAmbiguous(CurrentConfig)) =>
         (ConstructionCompleted \/ pc \in {"AssertionError", "ValueError", "KeyError"})

C13_Witness ==
  /\ ConstructionAborted
  /\ pc = "SystemExit"
  /\ RegisterShort(CurrentConfig)
  /\ Cardinality(DOMAIN CurrentConfig.employees) = 2

-----------------------------------------------------------------------------
(* Meetings                                                                *)

\* the slots inside one of the meeting ranges config.MEETINGS gives the name
MeetingSlots(config, e_name) ==
  {slot \in Slots :
     \E i \in DOMAIN config.meetings[e_name] :
       /\ config.meetings[e_name][i].start <= slot
       /\ slot < config.meetings[e_name][i].stop}

\* C14: in every accepted schedule, whatever the toggles are, an employee
\* with an entry in the meetings has MEETING at a slot exactly when the slot
\* is inside one of the entry's ranges, and an employee with no entry has
\* MEETING at no slot.
C14_MeetingsAsConfigured ==
  Accepted =>
    \A eid \in DOMAIN CurrentConfig.employees :
      LET e_name == CurrentConfig.employees[eid].name
      IN AppointmentsAt(eid, MEETING)
           = IF e_name \in DOMAIN CurrentConfig.meetings
               THEN MeetingSlots(CurrentConfig, e_name)
               ELSE {}

C14_Witness ==
  /\ Accepted /\ edits # {}
  /\ \E eid \in DOMAIN CurrentConfig.employees :
       /\ CurrentConfig.employees[eid].name \in DOMAIN CurrentConfig.meetings
       /\ AppointmentsAt(eid, MEETING) # {}
       /\ AppointmentsAt(eid, MEETING) # Slots
  /\ \E eid \in DOMAIN CurrentConfig.employees :
       CurrentConfig.employees[eid].name \notin DOMAIN CurrentConfig.meetings

-----------------------------------------------------------------------------
(* The lookup of an employee by name                                       *)

\* the employees of the day that bear the name
Bearers(config, e_name) ==
  {eid \in DOMAIN config.employees : config.employees[eid].name = e_name}

\* C15, as the spec states it: employee_name_to_id returns the id of the
\* employee when exactly one employee bears the name, and signals a
\* configuration error (SystemExit), never a program-defect assertion, both
\* when nobody bears the name and when several do; so construction does not
\* end with an AssertionError.
C15_LookupSignalsConfigError ==
  (ConstructionOver /\ ~RegisterShort(CurrentConfig)) =>
    /\ \A e_name \in DOMAIN CurrentConfig.meetings :
         IF Cardinality(Bearers(CurrentConfig, e_name)) = 1
           THEN employee_name_to_id(CurrentConfig, e_name)
                  \in Bearers(CurrentConfig, e_name)
           ELSE employee_name_to_id(CurrentConfig, e_name) = "SystemExit"
    /\ ~(pc = "AssertionError" /\ attempts = << >>)

-----------------------------------------------------------------------------
(* The statuses of a feasibility solve and the budgets                     *)

\* C16: a ladder attempt that ends UNKNOWN is followed as one that ends
\* INFEASIBLE is: by no refinement and by the next rung (after the last rung,
\* by the fallback); an attempt that ends MODEL_INVALID ends the run at once
\* with SystemExit: no later rung, no fallback and no refinement follows.
C16_UnknownAdvancesInvalidAborts ==
  \A i \in DOMAIN attempts :
    /\ (attempts[i].kind = "ladder" /\ attempts[i].status \in Unfound) =>
         IF i < Len(attempts)
           THEN /\ i < Len(Ladder) =>
                     (attempts[i + 1].kind = "ladder" /\ attempts[i + 1].rung = i + 1)
                /\ i = Len(Ladder) => attempts[i + 1].kind = "fallback"
           ELSE pc \in {"clear", "pin", "solve"} /\ refinements = 0
    /\ (attempts[i].kind # "idealistic" /\ attempts[i].status = "MODEL_INVALID") =>
         /\ i = Len(attempts)
         /\ pc = "SystemExit"
         /\ refinements = 0

C16_Witness ==
  /\ pc = "SystemExit"
  /\ Len(attempts) = 3
  /\ attempts[1].status = "UNKNOWN"
  /\ attempts[2].status = "INFEASIBLE"
  /\ attempts[3].status = "MODEL_INVALID"
  /\ attempts[3].rung = 3

\* C20, as the spec states it: the ladder attempts, the fallback attempt and
\* the refinement have three distinct budgets, and a refinement runs under a
\* budget strictly longer than that of the feasibility attempt before it.
C20_DistinctBudgets ==
  /\ \A i \in DOMAIN attempts : \A j \in DOMAIN attempts :
       attempts[i].kind # attempts[j].kind => attempts[i].budget # attempts[j].budget
  /\ \A i \in DOMAIN attempts :
       (attempts[i].kind = "idealistic" /\ i > 1) =>
         attempts[i].budget > attempts[i - 1].budget

\* C20, amended: a ladder attempt runs under 15 s, the fallback and the
\* refinement both under 60 s; a refinement's budget is never shorter than
\* that of the feasibility attempt before it: strictly longer after a ladder
\* rung, the same after the fallback.
C20_RefinementBudgetNotShorter ==
  \A i \in DOMAIN attempts :
    /\ attempts[i].kind = "ladder" => attempts[i].budget = 15
    /\ attempts[i].kind = "fallback" => attempts[i].budget = 60
    /\ (attempts[i].kind = "idealistic" /\ i > 1) =>
         /\ attempts[i].budget = 60
         /\ attempts[i].budget >= attempts[i - 1].budget
         /\ (attempts[i].budget > attempts[i - 1].budget)
              <=> (attempts[i - 1].kind = "ladder")

C20_Witness ==
  /\ pc = "done"
  /\ Len(attempts) = Len(Ladder) + 2
  /\ attempts[Len(Ladder) + 1].kind = "fallback"
  /\ attempts[Len(Ladder) + 2].kind = "idealistic"
  /\ attempts[Len(Ladder) + 2].budget = attempts[Len(Ladder) + 1].budget

-----------------------------------------------------------------------------
(* Store and Shift                                                         *)

\* C17: for every slot s in 0..NUM_SLOTS, time_to_slot(slot_to_time(s)) is s;
\* and for every time t of the open hours, slot_to_time(time_to_slot(t)) is
\* a time of the same slot as t, that slot being one of 0..NUM_SLOTS.
C17_SlotTimeRoundTrip ==
  pc = "classes" =>
    \A i \in DOMAIN trip :
      trip[i].kind = "slot" =>
        /\ trip[i].val \in 0 .. NUM_SLOTS
        /\ i + 1 <= Len(trip) => trip[i + 1].kind = "time"
        /\ i + 2 <= Len(trip) =>
             (trip[i + 2].kind = "slot" /\ trip[i + 2].val = trip[i].val)

C17_Witness ==
  /\ pc = "classes"
  /\ Len(trip) = 4
  /\ trip[1].kind = "time"
  /\ trip[3].val # trip[1].val
  /\ trip[2].val > time_to_slot(T1200)
  /\ trip[4].val = trip[2].val

\* C18, as the spec states it: Shift(template, flag) is defined for each of
\* the templates E, M and L with each value of the full-time flag.
C18_ShiftTotalOnTemplates ==
  (pc = "classes" /\ made.stage # "none" /\ IsTemplate(made.config)) =>
    /\ made.raised = "none"
    /\ made.shift.time_range.start < made.shift.time_range.stop

\* a template whose slot range, with the same full-time flag, is that of the
\* shift
TemplatesOfRange(shift) ==
  {config \in {ConfigE, ConfigM, ConfigL} :
     /\ ShiftTableHas(config, shift.is_fulltime)
     /\ Shift(config, shift.is_fulltime).time_range = shift.time_range}

\* C19, as the spec states it: a shift given as 'starttime-endtime' whose slot
\* range is that of a template with the same full-time flag has the lunch
\* priority, the strict lunch slots and the break/lunch orders of that
\* template.
C19_ExplicitAsItsTemplate ==
  (pc = "classes" /\ made.stage = "queried" /\ ~IsTemplate(made.config)) =>
    \A config \in TemplatesOfRange(made.shift) :
      LET template == Shift(config, made.is_fulltime)
      IN /\ made.raised = "none"
         /\ made.lunch_priority = lunch_priority(template)
         /\ made.lunch_slots_strict = lunch_slots_strict(template)
         /\ \A t \in LunchTimes :
              made.break_lunch_order[t] = break_lunch_order(template, t)

-----------------------------------------------------------------------------
(* The crowding caps                                                       *)

BreakFamily == {"break-3", "break-4", "break-5"}
BreakroomFamily == {"breakroom-4-if-12", "breakroom-5", "breakroom-6", "breakroom-7"}
WeightOf(c_name) ==
  LET i == CHOOSE i \in DOMAIN soft_constraints : soft_constraints[i].name = c_name
  IN soft_constraints[i].weight

\* C21, as the spec states it: within the family break-3/4/5 and within the
\* family breakroom-4-if-12/5/6/7, a member of higher weight caps the count
\* of a slot at a strictly larger number: it admits whatever a member of
\* lower weight admits, and it admits the first crowd, one employee larger,
\* that the member of lower weight rejects.
C21_CapsStrictlyIncrease ==
  pc = "crowd" =>
    \A family \in {BreakFamily, BreakroomFamily} :
      \A a \in family : \A b \in family :
        (enable[a] /\ WeightOf(a) < WeightOf(b) /\ verdict = "accepted") =>
          /\ SoftFunc(b, CrowdConfig, sched, TRUE)
          /\ Cardinality(edits) < MaxCrowd =>
               \A appt \in {BREAK, LUNCH} :
                 LET larger == Joined(sched, Cardinality(edits), appt)
                 IN ~SoftFunc(a, CrowdConfig, larger, TRUE) =>
                      SoftFunc(b, CrowdConfig, larger, TRUE)

-----------------------------------------------------------------------------
(* The refinement                                                          *)

\* C22: the refinement is never INFEASIBLE: the toggles of the solution that
\* triggered it satisfy every pin in force during the refinement, the model
\* with those pins has a solution, and the refinement ends OPTIMAL, FEASIBLE
\* or UNKNOWN, so its assertion never fails.
C22_RefinementNeverInfeasible ==
  /\ \A i \in DOMAIN attempts :
       attempts[i].kind = "idealistic" =>
         /\ attempts[i].status \in {"OPTIMAL", "FEASIBLE", "UNKNOWN"}
         /\ i > 1
         /\ \A pin \in attempts[i].in_force : attempts[i - 1].enable[pin[1]] = pin[2]
         /\ Solutions(day_of_week, attempts[i].in_force) # {}
  /\ refinements > 0 => pc = "done"

C22_Witness ==
  /\ pc = "done"
  /\ Len(attempts) > 2
  /\ attempts[Len(attempts)].kind = "idealistic"
  /\ attempts[Len(attempts)].status = "UNKNOWN"
  /\ attempts[Len(attempts) - 1].kind = "ladder"
  /\ attempts[Len(attempts) - 1].forced # {}

-----------------------------------------------------------------------------
(* The order of the breaks and the lunch                                   *)

FirstSlot(S) == CHOOSE x \in S : \A y \in S : x <= y
LastSlot(S) == CHOOSE x \in S : \A y \in S : y <= x
\* break_lunch_order at the time the employee's lunch starts
OrderOf(eid) ==
  break_lunch_order(CurrentConfig.employees[eid].shift,
                    slot_to_time(FirstSlot(AppointmentsAt(eid, LUNCH))))

\* C23: in every accepted schedule, whatever the toggles are, each employee's
\* two breaks and lunch are in the order break_lunch_order gives for the time
\* the lunch starts: 'L12' lunch start before the first break, '1L2' first
\* break before lunch start before last break, '12L' last break before lunch
\* start.
C23_BreakLunchOrder ==
  Accepted =>
    \A eid \in DOMAIN CurrentConfig.employees :
      LET break1 == FirstSlot(AppointmentsAt(eid, BREAK))
          break2 == LastSlot(AppointmentsAt(eid, BREAK))
          lunch == FirstSlot(AppointmentsAt(eid, LUNCH))
      IN /\ OrderOf(eid) \in {"L12", "1L2", "12L"}
         /\ OrderOf(eid) = "L12" => lunch < break1
         /\ OrderOf(eid) = "1L2" => (break1 < lunch /\ lunch < break2)
         /\ OrderOf(eid) = "12L" => break2 < lunch

C23_Witness ==
  /\ Accepted
  /\ \E name \in SoftNames : ~enable[name]
  /\ \E eid \in DOMAIN CurrentConfig.employees : OrderOf(eid) = "L12"
  /\ \E eid \in DOMAIN CurrentConfig.employees : OrderOf(eid) = "12L"

====
